---- MODULE Spec2Model ----
(***************************************************************************)
(* Model of the PLSA fitting engine (plsa/algorithms/base.py, plsa.py,      *)
(* conditional_plsa.py) and of the result container (result.py).            *)
(*                                                                          *)
(* Probability tensors are represented by the identity of their contents:   *)
(* [seed |-> s, gen |-> g] is the array obtained from the random initial    *)
(* conditional number s after g EM updates, Empty is an array allocated     *)
(* with numpy.empty and never written.  Kullback-Leibler divergences are    *)
(* integers (a fixed-point scale), the tolerance is a rational with         *)
(* denominator EpsDen.  Python lists live in a heap (kl_lists) and are      *)
(* referred to by their index, so that two holders of the same list see     *)
(* the same contents.                                                       *)
(***************************************************************************)
EXTENDS Integers, Sequences, FiniteSets, TLC

\* ------------------------------------------------------------------ bounds
MaxTopics == 2
MaxDocs == 3
MaxWords == 3
MaxSeed == 1
MaxIter == 2
MaxWarmup == 1
MaxEps == 1
MaxKL == 1
MaxRuns == 1
MaxCalls == 2

\* denominator of the tolerances of the model: eps = arg_eps / EpsDen
EpsDen == 2

\* the numeric model of the result container: number of topics, largest
\* topic weight and largest entry of the other arrays (in 1 / WeightDen)
MaxResultTopics == 3
MaxWeight == 5
MaxShift == 2

\* the weights of the result container are multiples of 1 / WeightDen
WeightDen == 10

\* MACHINE_PRECISION of the numeric model is 1 / PrecisionDen
PrecisionDen == 65536

\* predict: number of topics of the fitted engine, denominator of its
\* topic weights and of its word distributions, longest processed document
PredictTopics == 2
TopicDen == 4
WordDen == 1
MaxTokens == 3

\* predict: the first MaxCommonWords words of the vocabulary may occur in
\* every document of the corpus, the others occur in one
MaxCommonWords == 1

\* tokens that are in no vocabulary
UnknownWords == {"x", "y"}

\* the EM iteration on numbers: topics of the engine, iterations of a fit
EMTopics == 2
MaxEMIter == 2

\* document-word counts of corpora of EMTopics + 1 documents and words:
\* two documents that share their only word and a third with the other
\* words; every document with two words, every word in two documents; one
\* word in every document
Corpora ==
    {<<<<1, 0, 0>>, <<1, 0, 0>>, <<0, 1, 1>>>>,
     <<<<1, 1, 0>>, <<0, 1, 1>>, <<1, 0, 1>>>>,
     <<<<2, 1, 0>>, <<1, 0, 1>>, <<1, 0, 0>>>>}

\* the words a vocabulary is made of
\* shape of the arrays __normalize is applied to on its own
NormRows == 3
NormCols == 2

WordNames == <<"a", "b", "c", "d", "e", "f">>

Variants == {"PLSA", "ConditionalPLSA"}
Seeds == 1..MaxSeed
KLValues == 0..MaxKL

VARIABLES
    n_docs,            \* Corpus.n_docs
    n_words,           \* Corpus.n_words
    engine,            \* "none" or the class of the engine that exists
    arg_variant,       \* class named by the last constructor call
    arg_n_topics,      \* n_topics as passed to the last constructor call
    n_topics,          \* BasePLSA.__n_topics
    conditional,       \* BasePLSA._conditional
    joint,             \* BasePLSA._joint
    norm,              \* BasePLSA.__norm
    doc_given_topic,   \* BasePLSA._doc_given_topic
    word_given_topic,  \* PLSA._word_given_topic
    topic_given_word,  \* ConditionalPLSA._topic_given_word
    topic,             \* BasePLSA._topic
    kl_divergences,    \* BasePLSA._kl_divergences (index into kl_lists)
    kl_lists,          \* heap of Python lists
    pc,                \* position of the running call
    mode,              \* "fit" or "best_of": the call the caller made
    eps,               \* fit: eps after line 96
    max_iter,          \* fit: max_iter after line 97
    warmup,            \* fit: warmup after line 98
    n_iter,            \* fit: n_iter
    kl_divergence,     \* fit: kl_divergence of the current iteration
    exit,              \* how the while loop of fit was left
    n_runs,            \* best_of: n_runs after line 136
    n_fit_calls,       \* fit calls made by the running call
    n_em,              \* EM iterations started by the running fit
    results,           \* Results handed to the caller so far
    returned,          \* index in results of the value of the last call, or 0
    error,             \* exception raised by the last call, or "none"
    n_calls,           \* calls of fit / best_of made by the caller
    n_early_stops,     \* fit calls on the engine that were left by break
    vocabulary,        \* Corpus.vocabulary: position i holds the word of index i-1
    raw,               \* the arrays passed to PlsaResult.__init__
    res,               \* the fields of the PlsaResult
    phase,             \* position of the numeric computation
    factors,           \* the fitted arrays of the engine _result reads
    tf_idf,            \* PlsaResult.__tf_idf
    index,             \* Corpus.index: word -> position in the vocabulary
    doc_freq,          \* documents each word occurs in (Corpus.idf)
    pred,              \* predict: its locals and what it returned or raised
    em,                \* the arrays of the engine, as numbers
    argument,          \* __normalize: the array it is called with
    normalized         \* __normalize: the pair it returns

vars == <<n_docs, n_words, engine, arg_variant, arg_n_topics, n_topics,
          conditional, joint,
          norm, doc_given_topic, word_given_topic, topic_given_word, topic,
          kl_divergences, kl_lists, pc, mode, eps, max_iter, warmup,
          n_iter, kl_divergence, exit, n_runs, n_fit_calls, n_em, results,
          returned, error, n_calls, n_early_stops, vocabulary, raw, res, phase,
          factors, tf_idf, index, doc_freq, pred, em, argument, normalized>>

corpusVars == <<n_docs, n_words>>
resultVars == <<vocabulary, raw, res, phase>>
predictVars == <<factors, tf_idf, index, doc_freq, pred>>
normalizeVars == <<argument, normalized>>
auxVars == <<resultVars, predictVars, em, normalizeVars>>
ctorVars == <<engine, arg_variant, arg_n_topics, n_topics>>
tensorVars == <<conditional, joint, norm, doc_given_topic, word_given_topic,
                topic_given_word, topic>>
localVars == <<eps, max_iter, warmup, n_iter, kl_divergence, exit, n_runs>>
engineVars == <<ctorVars, tensorVars, kl_divergences, kl_lists, pc, mode,
                localVars, n_fit_calls, n_em, results, returned, error,
                n_calls, n_early_stops>>

\* ----------------------------------------------------------------- helpers
\* numpy.abs / abs(int(.)) on the integers of the model
Abs(x) == IF x < 0 THEN -x ELSE x

\* numpy.empty: allocated, never written
Empty == [seed |-> 0, gen |-> 0]

\* BasePLSA.__validated: "ok" or the exception it raises
Validated_NoMinimum(nt, nd, nw) ==
    IF nd <= Abs(nt) \/ nw <= Abs(nt) THEN "ValueError" ELSE "ok"

Validated_Strict(nt, nd, nw) ==
    IF Abs(nt) < 2 THEN "ValueError"
    ELSE IF nd < Abs(nt) \/ nw < Abs(nt) THEN "ValueError"
    ELSE "ok"

Validated(nt, nd, nw) ==
    IF Abs(nt) < 2 THEN "ValueError"
    ELSE IF nd <= Abs(nt) \/ nw <= Abs(nt) THEN "ValueError"
    ELSE "ok"

\* The subclass constructors after super().__init__: PLSA sizes its factor
\* with self.n_topics, ConditionalPLSA with the n_topics it was passed, and
\* numpy.empty raises ValueError on a negative dimension.
SubclassInit(variant, nt) ==
    IF variant = "ConditionalPLSA" /\ nt < 0 THEN "ValueError" ELSE "ok"

\* BasePLSA.__init__ followed by the subclass constructor
Constructed(variant, nt, nd, nw) ==
    IF Validated(nt, nd, nw) # "ok" THEN Validated(nt, nd, nw)
    ELSE SubclassInit(variant, nt)

\* the while condition of fit
LoopCondition_OneMore(n, mi, wu) == n <= mi + wu

LoopCondition(n, mi, wu) == n < mi + wu

\* BasePLSA.__rel_change(new) < eps, for a non-empty history and new # 0:
\* abs((new - old) / new) < e / EpsDen
RelChangeBelow(old, new, e) == Abs(new - old) * EpsDen < e * Abs(new)

\* BasePLSA.__rel_change divides by new: FloatingPointError under
\* seterr(all='raise') when the history is not empty and new = 0
RelChangeRaises(hist, new) == hist # << >> /\ new = 0

\* the condition of the break in fit
StopCondition_NoWarmup(n, wu, hist, new, e) ==
    /\ hist # << >>
    /\ RelChangeBelow(hist[Len(hist)], new, e)

StopCondition_FirstZero(n, wu, hist, new, e) ==
    /\ n > wu
    /\ IF hist = << >> THEN 0 < e
       ELSE RelChangeBelow(hist[Len(hist)], new, e)

StopCondition(n, wu, hist, new, e) ==
    /\ n > wu
    /\ hist # << >>
    /\ RelChangeBelow(hist[Len(hist)], new, e)

\* self._kl_divergences.append(kl_divergence)
Recorded_Dropped(hist, kl) == hist

Recorded_Restarted(hist, kl) == <<kl>>

Recorded_Twice(hist, kl) == Append(Append(hist, kl), kl)

Recorded(hist, kl) == Append(hist, kl)

\* one EM update of a tensor
Updated_Stale(t) == t

Updated(t) == [seed |-> t.seed, gen |-> t.gen + 1]

\* PlsaResult.__init__: the list of divergences is stored as passed
StoredHistory(ref) == ref

\* PLSA._result / ConditionalPLSA._result
Result == [topic_given_doc |-> doc_given_topic,
           word_given_topic |->
               IF engine = "PLSA" THEN word_given_topic ELSE topic_given_word,
           topic_given_word |->
               IF engine = "PLSA" THEN word_given_topic ELSE topic_given_word,
           topic |-> topic,
           kl_divergences |-> StoredHistory(kl_divergences)]

\* PlsaResult.convergence
Convergence(r) == kl_lists[r.kl_divergences]

\* the engine's convergence history
History == IF kl_divergences = 0 THEN << >> ELSE kl_lists[kl_divergences]

IsPrefix(s, t) == Len(s) <= Len(t) /\ \A i \in 1..Len(s) : s[i] = t[i]

\* ----------------------------------------------------------------- numbers
\* A float of the numeric model is an exact fraction <<numerator,
\* denominator>> in lowest terms with a positive denominator.
RECURSIVE GCD(_, _)
GCD(a, b) == IF b = 0 THEN a ELSE GCD(b, a % b)

Rat(n, d) ==
    IF n = 0 THEN <<0, 1>>
    ELSE LET g == GCD(Abs(n), d) IN <<n \div g, d \div g>>

Zero == Rat(0, 1)
One == Rat(1, 1)

\* the operations divide by common factors before they multiply
RAdd(x, y) ==
    LET g == GCD(x[2], y[2])
    IN  Rat(x[1] * (y[2] \div g) + y[1] * (x[2] \div g),
            (x[2] \div g) * y[2])

RMul(x, y) ==
    IF x[1] = 0 \/ y[1] = 0 THEN <<0, 1>>
    ELSE LET g == GCD(Abs(x[1]), y[2])
             h == GCD(Abs(y[1]), x[2])
         IN  <<(x[1] \div g) * (y[1] \div h),
               (x[2] \div h) * (y[2] \div g)>>

RNeg(x) == <<-x[1], x[2]>>

RLess(x, y) ==
    LET g == GCD(x[2], y[2])
    IN  x[1] * (y[2] \div g) < y[1] * (x[2] \div g)

RLeq(x, y) ==
    LET g == GCD(x[2], y[2])
    IN  x[1] * (y[2] \div g) <= y[1] * (x[2] \div g)

\* x / y for x >= 0 and y > 0
RDiv(x, y) == RMul(x, <<y[2], y[1]>>)

\* array.sum() of a one-dimensional array
RECURSIVE RSum(_)
RSum(s) == IF s = << >> THEN Zero ELSE RAdd(s[1], RSum(Tail(s)))

\* ------------------------------------------------------------------ arrays
\* A one-dimensional array is a sequence of numbers, a two-dimensional
\* array the sequence of its rows; position i of an axis is index i-1 of
\* the numpy array.
NoArrays == [topic |-> << >>, topic_given_doc |-> << >>,
             topic_given_word |-> << >>, word_given_topic |-> << >>,
             kl_divergences |-> << >>]

Column(m, j) == [i \in 1..Len(m) |-> m[i][j]]

NonIncreasing(s) == \A i \in 1..(Len(s) - 1) : RLeq(s[i + 1], s[i])

Perms(n) == {p \in [1..n -> 1..n] : \A i, j \in 1..n : p[i] = p[j] => i = j}

\* -array
Negated(s) == [i \in 1..Len(s) |-> RNeg(s[i])]

\* array.argsort(axis=0) for one column: the index arrays that put it in
\* ascending order (numpy's default sort is not stable: equal entries may
\* come out in either order)
Argsort(s) ==
    {p \in Perms(Len(s)) :
        \A i \in 1..(Len(s) - 1) : RLeq(s[p[i]], s[p[i + 1]])}

\* PlsaResult.__sorted, first line: (-array).argsort(axis=0) for one column
SortingIndices(s) == Argsort(Negated(s))

\* array[order] on the first axis
Take(array, order) == [k \in 1..Len(order) |-> array[order[k]]]

\* topic_given_doc[topic_order], topic_given_word[topic_order]
OrderedRows_Unordered(array, order) == array

OrderedRows(array, order) == Take(array, order)

\* word_given_topic[:, topic_order]
OrderedColumns(m, order) == [i \in 1..Len(m) |-> Take(m[i], order)]

\* PlsaResult.__sorted, second line, for the index arrays idx (one per
\* column): array[sorting_indices, arange(array.shape[1])]
SortedColumns(m, idx) ==
    [i \in 1..Len(m) |-> [t \in 1..Len(idx) |-> m[idx[t][i]][t]]]

\* the values (-array).argsort(axis=0).T can take for a matrix
RECURSIVE ColumnOrdersUpTo(_, _)
ColumnOrdersUpTo(m, t) ==
    IF t = 0 THEN {<< >>}
    ELSE {Append(idx, p) : idx \in ColumnOrdersUpTo(m, t - 1),
                           p \in SortingIndices(Column(m, t))}

ColumnOrders(m) == ColumnOrdersUpTo(m, Len(m[1]))

\* PlsaResult.__zipped: zip(first[topic], second[:, topic])
Zipped_Unsorted(first, second, t) ==
    [i \in 1..Len(first[t]) |-> <<i, second[i][t]>>]

Zipped(first, second, t) ==
    [i \in 1..Len(first[t]) |-> <<first[t][i], second[i][t]>>]

\* PlsaResult.__tuples: (vocabulary[index], proba) for index, proba in zipped
Tuples(voc, zipped) ==
    [i \in 1..Len(zipped) |-> <<voc[zipped[i][1]], zipped[i][2]>>]

\* PlsaResult.__init__, lines 21-29, for the index arrays the two sorts
\* returned
PlsaResult_RawRows(r, voc, topic_order, word_order) ==
    LET by_topic == OrderedColumns(r.word_given_topic, topic_order)
        sorted == SortedColumns(by_topic, word_order)
    IN  [topic |-> Take(r.topic, topic_order),
         topic_given_doc |-> OrderedRows(r.topic_given_doc, topic_order),
         topic_given_word |-> r.topic_given_word,
         word_given_topic |->
             [t \in 1..Len(r.topic) |->
                 Tuples(voc, Zipped(word_order, sorted, t))],
         kl_divergences |-> r.kl_divergences]

PlsaResult(r, voc, topic_order, word_order) ==
    LET by_topic == OrderedColumns(r.word_given_topic, topic_order)
        sorted == SortedColumns(by_topic, word_order)
    IN  [topic |-> Take(r.topic, topic_order),
         topic_given_doc |-> OrderedRows(r.topic_given_doc, topic_order),
         topic_given_word |-> OrderedRows(r.topic_given_word, topic_order),
         word_given_topic |->
             [t \in 1..Len(r.topic) |->
                 Tuples(voc, Zipped(word_order, sorted, t))],
         kl_divergences |-> r.kl_divergences]

\* ---------------------------------------------------------- normalization
\* MACHINE_PRECISION = finfo(float).eps, on the scale of the model
MachinePrecision == Rat(1, PrecisionDen)

\* x < MACHINE_PRECISION: numerator * PrecisionDen < denominator, without
\* the product
BelowPrecision(x) == x[1] <= (x[2] - 1) \div MachinePrecision[2]

\* array[array < MACHINE_PRECISION] = 0.0, for one entry
Clamped_Kept(x) == x

Clamped(x) == IF BelowPrecision(x) THEN Zero ELSE x

\* norm[norm == 0.0] = 1.0, for one entry
Divisor(x) == IF x = Zero THEN One ELSE x

\* BasePLSA.__normalize for a two-dimensional array (a tensor is given as
\* the matrix of its first axis against the others): the sums run over
\* the first axis
Normalize(m) ==
    LET clamped == [i \in 1..Len(m) |->
                       [j \in 1..Len(m[1]) |-> Clamped(m[i][j])]]
        nrm == [j \in 1..Len(m[1]) |-> Divisor(RSum(Column(clamped, j)))]
    IN  [array |-> [i \in 1..Len(m) |->
                       [j \in 1..Len(m[1]) |->
                           RDiv(clamped[i][j], nrm[j])]],
         norm |-> nrm]

\* nothing returned yet
NoReturn == [array |-> << >>, norm |-> << >>]

\* array.T
Transposed(m) == [j \in 1..Len(m[1]) |-> Column(m, j)]

\* BasePLSA._invert: conditional * marginal, transposed, normalized
Invert_NoMarginal(cond, marginal) ==
    Normalize(Transposed(cond)).array

Invert(cond, marginal) ==
    LET inverted == [i \in 1..Len(cond) |->
                        [j \in 1..Len(marginal) |->
                            RMul(cond[i][j], marginal[j])]]
    IN  Normalize(Transposed(inverted)).array

\* ------------------------------------------------------------------ predict
NoFactors == [variant |-> "none", topic |-> << >>,
              doc_given_topic |-> << >>, word_given_topic |-> << >>,
              topic_given_word |-> << >>, word |-> << >>,
              kl_divergences |-> << >>]

NoPrediction == [doc |-> << >>, encoded |-> << >>, n_new_words |-> 0,
                 new_words |-> << >>, affinity |-> << >>, error |-> "none"]

\* PLSA._result / ConditionalPLSA._result: the arguments of PlsaResult
ResultArguments(f) ==
    IF f.variant = "PLSA"
    THEN [topic_given_doc |-> Invert(f.doc_given_topic, f.topic),
          word_given_topic |-> f.word_given_topic,
          topic_given_word |-> Invert(f.word_given_topic, f.topic),
          topic |-> f.topic,
          kl_divergences |-> f.kl_divergences]
    ELSE [topic_given_doc |-> Invert(f.doc_given_topic, f.topic),
          word_given_topic |-> Invert(f.topic_given_word, f.word),
          topic_given_word |-> f.topic_given_word,
          topic |-> f.topic,
          kl_divergences |-> f.kl_divergences]

\* 10 * log(n), rounded, for n = 1..6
LogTable == <<0, 7, 11, 14, 16, 18>>

\* Corpus.idf: log(n_docs / number of documents the word occurs in)
Idf(nd, freq) ==
    [w \in 1..Len(freq) |-> Rat(LogTable[nd] - LogTable[freq[w]], 10)]

\* self.__corpus.index.get(word, self.__corpus.n_words)
IndexGet_First(idx, word, default) ==
    IF word \in DOMAIN idx THEN idx[word] ELSE 1

IndexGet(idx, word, default) ==
    IF word \in DOMAIN idx THEN idx[word] ELSE default

\* the dictionary after index.get(word, default)
IndexAfterGet_Inserting(idx, word) ==
    IF word \in DOMAIN idx THEN idx
    ELSE [x \in DOMAIN idx \cup {word} |->
             IF x = word THEN Cardinality(DOMAIN idx) + 1 ELSE idx[x]]

IndexAfterGet(idx, word) == idx

\* new_words.append(word)
Appended_Once(list, word) ==
    IF \E i \in 1..Len(list) : list[i] = word THEN list
    ELSE Append(list, word)

Appended(list, word) == Append(list, word)

\* predict, lines 67-73: the loop over the processed document
RECURSIVE Counted(_, _, _)
Counted(idx, nw, doc) ==
    IF doc = << >>
    THEN [encoded |-> [i \in 1..(nw + 1) |-> Zero],
          new_words |-> << >>,
          index |-> idx]
    ELSE LET before == Counted(idx, nw, SubSeq(doc, 1, Len(doc) - 1))
             word == doc[Len(doc)]
             i == IndexGet(before.index, word, nw + 1)
         IN  [encoded |-> [before.encoded EXCEPT ![i] = RAdd(@, One)],
              new_words |-> IF i = nw + 1
                            THEN Appended(before.new_words, word)
                            ELSE before.new_words,
              index |-> IndexAfterGet(before.index, word)]

\* int(x) of a number
IntOf(x) == x[1] \div x[2]

\* predict, line 75, on encoded[:-1]
Weighted(encoded, tf, idf) ==
    IF tf THEN [w \in 1..Len(encoded) |-> RMul(encoded[w], idf[w])]
    ELSE encoded

\* matrix.dot(vector)
Dot(m, v) ==
    [k \in 1..Len(m) |->
        RSum([w \in 1..Len(v) |-> RMul(m[k][w], v[w])])]

\* predict, lines 66-78: the locals after the loop, and the value
\* returned; encoded /= encoded.sum() is 0 / 0 when the weighted counts
\* are all zero, a FloatingPointError under seterr(all='raise')
Predicted(r, idx, nw, tf, idf, doc) ==
    LET counted == Counted(idx, nw, doc)
        encoded == Weighted(SubSeq(counted.encoded, 1, nw), tf, idf)
        total == RSum(encoded)
    IN  [doc |-> doc,
         encoded |-> counted.encoded,
         n_new_words |-> IntOf(counted.encoded[nw + 1]),
         new_words |-> counted.new_words,
         affinity |->
             IF total = Zero THEN << >>
             ELSE Dot(r.topic_given_word,
                      [w \in 1..nw |-> RDiv(encoded[w], total)]),
         error |-> IF total = Zero THEN "FloatingPointError" ELSE "none"]

\* ------------------------------------------------------ the EM iteration
\* A tensor indexed [t, d, w] is the matrix of its topics against its
\* cells, cell (d - 1) * n_words + w standing for document d and word w.
NoArraysOfEngine ==
    [variant |-> "none", doc_word |-> << >>, word |-> << >>,
     conditional |-> << >>, joint |-> << >>, norm |-> << >>,
     doc_given_topic |-> << >>, word_given_topic |-> << >>,
     topic_given_word |-> << >>, topic |-> << >>, n_iter |-> 0]

Cell(d, w, nw) == (d - 1) * nw + w
DocOf(c, nw) == ((c - 1) \div nw) + 1
WordOf(c, nw) == ((c - 1) % nw) + 1

\* Corpus.get_doc_word: the counts, weighted with the inverse document
\* frequency or not, divided by their sum
GetDocWord(counts, tf) ==
    LET nd == Len(counts)
        nw == Len(counts[1])
        freq == [w \in 1..nw |->
                    Cardinality({d \in 1..nd : counts[d][w] > 0})]
        idf == Idf(nd, freq)
        weighted == [d \in 1..nd |-> [w \in 1..nw |->
                        IF tf THEN RMul(Rat(counts[d][w], 1), idf[w])
                        ELSE Rat(counts[d][w], 1)]]
        total == RSum([d \in 1..nd |-> RSum(weighted[d])])
    IN  [d \in 1..nd |-> [w \in 1..nw |-> RDiv(weighted[d][w], total)]]

\* Corpus.get_word: get_doc_word(tf_idf).sum(axis=0)
GetWord(p) == [w \in 1..Len(p[1]) |-> RSum(Column(p, w))]

\* einsum('dw,tdw->dt', doc_word, conditional)
SumDT(p, q) ==
    [d \in 1..Len(p) |-> [t \in 1..Len(q) |->
        RSum([w \in 1..Len(p[1]) |->
                 RMul(p[d][w], q[t][Cell(d, w, Len(p[1]))])])]]

\* einsum('dw,tdw->wt', doc_word, conditional)
SumWT(p, q) ==
    [w \in 1..Len(p[1]) |-> [t \in 1..Len(q) |->
        RSum([d \in 1..Len(p) |->
                 RMul(p[d][w], q[t][Cell(d, w, Len(p[1]))])])]]

\* einsum('dw,tdw->tw', doc_word, conditional)
SumTW(p, q) == Transposed(SumWT(p, q))

\* einsum('dw,tdw->t', doc_word, conditional)
SumT(p, q) == [t \in 1..Len(q) |-> RSum(Column(SumDT(p, q), t))]

\* BasePLSA._norm_sum, for the sum the index pattern gives
NormSum_NoDivision(summed) ==
    [i \in 1..Len(summed) |->
        [j \in 1..Len(summed[1]) |-> Clamped(summed[i][j])]]

NormSum(summed) == Normalize(summed).array

\* PLSA._m_step
MStepPLSA(e) ==
    LET dgt == NormSum(SumDT(e.doc_word, e.conditional))
        wgt == NormSum(SumWT(e.doc_word, e.conditional))
        tp == SumT(e.doc_word, e.conditional)
        nw == Len(e.doc_word[1])
    IN  [e EXCEPT
            !.doc_given_topic = dgt,
            !.word_given_topic = wgt,
            !.topic = tp,
            !.joint = [t \in 1..Len(tp) |->
                          [c \in 1..Len(e.conditional[1]) |->
                              RMul(RMul(dgt[DocOf(c, nw)][t],
                                        wgt[WordOf(c, nw)][t]), tp[t])]]]

\* ConditionalPLSA._m_step
MStepConditional(e) ==
    LET dgt == NormSum(SumDT(e.doc_word, e.conditional))
        tgw == NormSum(SumTW(e.doc_word, e.conditional))
        nw == Len(e.doc_word[1])
        jnt == [t \in 1..Len(e.conditional) |->
                   [c \in 1..Len(e.conditional[1]) |->
                       RMul(RMul(dgt[DocOf(c, nw)][t],
                                 tgw[t][WordOf(c, nw)]),
                            e.word[WordOf(c, nw)])]]
    IN  [e EXCEPT
            !.doc_given_topic = dgt,
            !.topic_given_word = tgw,
            !.joint = jnt,
            !.topic = [t \in 1..Len(jnt) |-> RSum(jnt[t])]]

\* BasePLSA.__e_step: __normalize clamps self._joint in place
EStepOf(e) ==
    LET n == Normalize(e.joint)
    IN  [e EXCEPT
            !.conditional = n.array,
            !.norm = n.norm,
            !.joint = [t \in 1..Len(e.joint) |->
                          [c \in 1..Len(e.joint[1]) |->
                              Clamped(e.joint[t][c])]],
            !.n_iter = e.n_iter + 1]

\* BasePLSA.__random for the values rand returned
Random(values) == Normalize(values).array

\* BasePLSA.__init__ and the subclass constructor, for the document-word
\* counts of the corpus and the values rand returned
Engine(v, counts, tf, values) ==
    [NoArraysOfEngine EXCEPT
        !.variant = v,
        !.doc_word = GetDocWord(counts, tf),
        !.word = IF v = "PLSA" THEN << >>
                 ELSE GetWord(GetDocWord(counts, tf)),
        !.conditional = Random(values)]

\* -------------------------------------------------------------------- Init
\* no engine has been constructed and no call has been made
NoEngine ==
    /\ engine = "none"
    /\ arg_variant = "none"
    /\ arg_n_topics = 0
    /\ n_topics = 0
    /\ conditional = Empty
    /\ joint = Empty
    /\ norm = Empty
    /\ doc_given_topic = Empty
    /\ word_given_topic = Empty
    /\ topic_given_word = Empty
    /\ topic = Empty
    /\ kl_divergences = 0
    /\ kl_lists = << >>
    /\ pc = "idle"
    /\ mode = "none"
    /\ eps = 0
    /\ max_iter = 0
    /\ warmup = 0
    /\ n_iter = 0
    /\ kl_divergence = 0
    /\ exit = "none"
    /\ n_runs = 0
    /\ n_fit_calls = 0
    /\ n_em = 0
    /\ results = << >>
    /\ returned = 0
    /\ error = "none"
    /\ n_calls = 0
    /\ n_early_stops = 0

\* no PlsaResult is being assembled
NoResult ==
    /\ vocabulary = << >>
    /\ raw = NoArrays
    /\ res = NoArrays
    /\ phase = "none"

\* no fitted arrays are held and predict has not been called
NoPredict ==
    /\ factors = NoFactors
    /\ tf_idf = FALSE
    /\ index = << >>
    /\ doc_freq = << >>
    /\ pred = NoPrediction

\* no engine with numeric arrays exists
NoNumbers == em = NoArraysOfEngine

\* __normalize has not been called on its own
NoNormalize ==
    /\ argument = << >>
    /\ normalized = NoReturn

Init ==
    /\ n_docs \in 0..MaxDocs
    /\ n_words \in 0..MaxWords
    /\ (n_docs = 0) <=> (n_words = 0)
    /\ NoEngine
    /\ NoResult
    /\ NoPredict
    /\ NoNumbers
    /\ NoNormalize

\* ----------------------------------------------------------- construction
\* PLSA(corpus, n_topics) / ConditionalPLSA(corpus, n_topics) raising
ConstructFail(variant, nt) ==
    /\ engine = "none"
    /\ Constructed(variant, nt, n_docs, n_words) # "ok"
    /\ arg_variant' = variant
    /\ arg_n_topics' = nt
    /\ error' = Constructed(variant, nt, n_docs, n_words)
    /\ UNCHANGED <<auxVars, corpusVars, n_early_stops, engine, n_topics,
                   tensorVars, kl_divergences,
                   kl_lists, pc, mode, localVars, n_fit_calls, n_em,
                   results, returned, n_calls>>

\* PLSA(corpus, n_topics) / ConditionalPLSA(corpus, n_topics) returning
Construct(variant, nt, seed) ==
    /\ engine = "none"
    /\ Constructed(variant, nt, n_docs, n_words) = "ok"
    /\ arg_variant' = variant
    /\ arg_n_topics' = nt
    /\ engine' = variant
    /\ n_topics' = Abs(nt)
    /\ joint' = Empty
    /\ conditional' = [seed |-> seed, gen |-> 0]
    /\ norm' = Empty
    /\ doc_given_topic' = Empty
    /\ topic' = Empty
    /\ word_given_topic' = Empty
    /\ topic_given_word' = Empty
    /\ kl_lists' = Append(kl_lists, << >>)
    /\ kl_divergences' = Len(kl_lists) + 1
    /\ error' = "none"
    /\ UNCHANGED <<auxVars, corpusVars, n_early_stops, pc, mode, localVars,
                   n_fit_calls, n_em,
                   results, returned, n_calls>>

\* ------------------------------------------------------------------- calls
\* entry of fit: lines 96-99 and the first test of the while condition
EnterFit(e, mi, wu) ==
    /\ eps' = Abs(e)
    /\ max_iter' = Abs(mi)
    /\ warmup' = Abs(wu)
    /\ n_iter' = 0
    /\ n_em' = 0
    /\ kl_divergence' = 0
    /\ exit' = IF LoopCondition(0, Abs(mi), Abs(wu))
               THEN "none" ELSE "exhausted"
    /\ pc' = IF LoopCondition(0, Abs(mi), Abs(wu))
             THEN "m_step" ELSE "return"

\* the caller calls engine.fit(eps, max_iter, warmup)
Fit(e, mi, wu) ==
    /\ engine # "none"
    /\ pc = "idle"
    /\ n_calls < MaxCalls
    /\ n_calls' = n_calls + 1
    /\ mode' = "fit"
    /\ EnterFit(e, mi, wu)
    /\ n_runs' = 0
    /\ n_fit_calls' = 1
    /\ returned' = 0
    /\ error' = "none"
    /\ UNCHANGED <<auxVars, corpusVars, n_early_stops, ctorVars, tensorVars,
                   kl_divergences, kl_lists, results>>

\* the caller calls engine.best_of(n_runs, eps=, max_iter=, warmup=):
\* line 136 and the entry of the baseline fit of line 137
BestOf(nr, e, mi, wu) ==
    /\ engine # "none"
    /\ pc = "idle"
    /\ n_calls < MaxCalls
    /\ n_calls' = n_calls + 1
    /\ mode' = "best_of"
    /\ EnterFit(e, mi, wu)
    /\ n_runs' = Abs(nr)
    /\ n_fit_calls' = 1
    /\ returned' = 0
    /\ error' = "none"
    /\ UNCHANGED <<auxVars, corpusVars, n_early_stops, ctorVars, tensorVars,
                   kl_divergences, kl_lists, results>>

\* ------------------------------------------------------------ one iteration
\* PLSA._m_step / ConditionalPLSA._m_step
MStep ==
    /\ pc = "m_step"
    /\ doc_given_topic' = Updated(conditional)
    /\ IF engine = "PLSA"
       THEN /\ word_given_topic' = Updated(conditional)
            /\ UNCHANGED topic_given_word
       ELSE /\ topic_given_word' = Updated(conditional)
            /\ UNCHANGED word_given_topic
    /\ topic' = Updated(conditional)
    /\ joint' = Updated(conditional)
    /\ n_em' = n_em + 1
    /\ pc' = "e_step"
    /\ UNCHANGED <<auxVars, corpusVars, n_early_stops, ctorVars, conditional,
                   norm, kl_divergences, kl_lists, mode, localVars,
                   n_fit_calls, results, returned, error, n_calls>>

\* BasePLSA.__e_step
EStep ==
    /\ pc = "e_step"
    /\ conditional' = joint
    /\ norm' = joint
    /\ pc' = "check"
    /\ UNCHANGED <<auxVars, corpusVars, n_early_stops, ctorVars, joint,
                   doc_given_topic, word_given_topic, topic_given_word, topic,
                   kl_divergences, kl_lists, mode, localVars,
                   n_fit_calls, n_em, results, returned, error, n_calls>>

\* lines 103-106 of fit when __rel_change raises FloatingPointError
CheckRaise(kl) ==
    /\ pc = "check"
    /\ n_iter + 1 > warmup
    /\ RelChangeRaises(History, kl)
    /\ kl_divergence' = kl
    /\ n_iter' = n_iter + 1
    /\ exit' = "raise"
    /\ pc' = "raise"
    /\ UNCHANGED <<auxVars, corpusVars, n_early_stops, ctorVars, tensorVars,
                   kl_divergences, kl_lists, mode, eps, max_iter,
                   warmup, n_runs, n_fit_calls, n_em, results, returned,
                   error, n_calls>>

\* lines 103-107 of fit when the loop is left by break
CheckBreak(kl) ==
    /\ pc = "check"
    /\ ~(n_iter + 1 > warmup /\ RelChangeRaises(History, kl))
    /\ StopCondition(n_iter + 1, warmup, History, kl, eps)
    /\ kl_divergence' = kl
    /\ n_iter' = n_iter + 1
    /\ exit' = "break"
    /\ n_early_stops' = n_early_stops + 1
    /\ pc' = "return"
    /\ UNCHANGED <<auxVars, corpusVars, ctorVars, tensorVars,
                   kl_divergences, kl_lists, mode, eps, max_iter,
                   warmup, n_runs, n_fit_calls, n_em, results, returned,
                   error, n_calls>>

\* lines 103-108 of fit and the next test of the while condition
CheckAppend(kl) ==
    /\ pc = "check"
    /\ ~(n_iter + 1 > warmup /\ RelChangeRaises(History, kl))
    /\ ~StopCondition(n_iter + 1, warmup, History, kl, eps)
    /\ kl_divergence' = kl
    /\ n_iter' = n_iter + 1
    /\ kl_lists' = [kl_lists EXCEPT ![kl_divergences] = Recorded(@, kl)]
    /\ exit' = IF LoopCondition(n_iter + 1, max_iter, warmup)
               THEN "none" ELSE "exhausted"
    /\ pc' = IF LoopCondition(n_iter + 1, max_iter, warmup)
             THEN "m_step" ELSE "return"
    /\ UNCHANGED <<auxVars, corpusVars, n_early_stops, ctorVars, tensorVars,
                   kl_divergences, mode, eps, max_iter, warmup, n_runs,
                   n_fit_calls, n_em, results, returned, error, n_calls>>

\* ------------------------------------------------------------------ returns
\* the frame of the call is left: its locals are gone
LeaveFrame ==
    /\ eps' = 0
    /\ max_iter' = 0
    /\ warmup' = 0
    /\ n_iter' = 0
    /\ kl_divergence' = 0
    /\ exit' = "none"
    /\ n_runs' = 0
    /\ n_em' = 0
    /\ pc' = "idle"

\* line 109 of fit, called by the caller: the Result is handed out
FitReturn ==
    /\ pc = "return"
    /\ mode = "fit"
    /\ results' = Append(results, Result)
    /\ returned' = Len(results) + 1
    /\ LeaveFrame
    /\ UNCHANGED <<auxVars, corpusVars, n_early_stops, ctorVars, tensorVars,
                   kl_divergences, kl_lists, mode, n_fit_calls, error,
                   n_calls>>

\* lines 137-138 of best_of: the baseline fit returns its Result, and
\* best.kl_divergence raises AttributeError (PlsaResult has no such
\* attribute); lines 139-146 are never reached
BestOfAttributeError ==
    /\ pc = "return"
    /\ mode = "best_of"
    /\ error' = "AttributeError"
    /\ LeaveFrame
    /\ UNCHANGED <<auxVars, corpusVars, n_early_stops, ctorVars, tensorVars,
                   kl_divergences, kl_lists, mode, n_fit_calls, results,
                   returned, n_calls>>

\* line 109 of fit on an engine no M-step has written yet: _result reads
\* arrays allocated with numpy.empty, whose contents are arbitrary, so the
\* arithmetic of _invert may as well overflow or meet a NaN and raise
\* FloatingPointError under seterr(all='raise')
ResultRaise ==
    /\ pc = "return"
    /\ topic = Empty
    /\ error' = "FloatingPointError"
    /\ LeaveFrame
    /\ UNCHANGED <<auxVars, corpusVars, n_early_stops, ctorVars, tensorVars,
                   kl_divergences, kl_lists, mode, n_fit_calls, results,
                   returned, n_calls>>

\* the FloatingPointError of __rel_change leaves fit (and best_of)
Propagate ==
    /\ pc = "raise"
    /\ error' = "FloatingPointError"
    /\ LeaveFrame
    /\ UNCHANGED <<auxVars, corpusVars, n_early_stops, ctorVars, tensorVars,
                   kl_divergences, kl_lists, mode, n_fit_calls, results,
                   returned, n_calls>>

\* -------------------------------------------------------------------- Next
Next ==
    \/ \E v \in Variants, nt \in -MaxTopics..MaxTopics : ConstructFail(v, nt)
    \/ \E v \in Variants, nt \in -MaxTopics..MaxTopics, s \in Seeds :
           Construct(v, nt, s)
    \/ \E e \in -MaxEps..MaxEps, mi \in -MaxIter..MaxIter,
          wu \in -MaxWarmup..MaxWarmup : Fit(e, mi, wu)
    \/ \E nr \in -MaxRuns..MaxRuns, e \in -MaxEps..MaxEps,
          mi \in -MaxIter..MaxIter, wu \in -MaxWarmup..MaxWarmup :
           BestOf(nr, e, mi, wu)
    \/ MStep
    \/ EStep
    \/ \E kl \in KLValues : CheckRaise(kl)
    \/ \E kl \in KLValues : CheckBreak(kl)
    \/ \E kl \in KLValues : CheckAppend(kl)
    \/ FitReturn
    \/ BestOfAttributeError
    \/ ResultRaise
    \/ Propagate

Spec == Init /\ [][Next]_vars

\* -------------------------------------------------- the result container
\* The arrays an engine of nt topics on the smallest corpus its constructor
\* admits (nt + 1 documents, nt + 1 words) hands to PlsaResult.__init__:
\* arbitrary topic weights, and for every topic t a row of topic_given_doc,
\* a row of topic_given_word and a column of word_given_topic that the
\* offset shift[t] tells apart from those of the other topics.
RawArrays(nt, weights, shift) ==
    [topic |-> [t \in 1..nt |-> Rat(weights[t], WeightDen)],
     topic_given_doc |->
         [t \in 1..nt |-> [d \in 1..(nt + 1) |->
             Rat((shift[t] + d) % (MaxShift + 1), WeightDen)]],
     topic_given_word |->
         [t \in 1..nt |-> [w \in 1..(nt + 1) |->
             Rat((shift[t] + 2 * w) % (MaxShift + 1), WeightDen)]],
     word_given_topic |->
         [w \in 1..(nt + 1) |-> [t \in 1..nt |->
             Rat((shift[t] + w) % (MaxShift + 1), WeightDen)]],
     kl_divergences |-> << >>]

InitResult ==
    /\ NoEngine
    /\ \E nt \in 2..MaxResultTopics :
        /\ n_docs = nt + 1
        /\ n_words = nt + 1
        /\ vocabulary = [i \in 1..(nt + 1) |-> WordNames[i]]
        /\ \E weights \in [1..nt -> 0..MaxWeight],
              shift \in [1..nt -> 0..MaxShift] :
               raw = RawArrays(nt, weights, shift)
    /\ res = NoArrays
    /\ phase = "raw"
    /\ NoPredict
    /\ NoNumbers
    /\ NoNormalize

\* PlsaResult(topic_given_doc, word_given_topic, topic_given_word, topic,
\* kl_divergences, corpus, tf_idf)
Package ==
    /\ phase = "raw"
    /\ \E topic_order \in SortingIndices(raw.topic) :
       \E word_order \in
              ColumnOrders(OrderedColumns(raw.word_given_topic, topic_order)) :
           res' = PlsaResult(raw, vocabulary, topic_order, word_order)
    /\ phase' = "result"
    /\ UNCHANGED <<corpusVars, engineVars, predictVars, vocabulary, raw, em,
                   normalizeVars>>

NextResult == Package

SpecResult == InitResult /\ [][NextResult]_vars

\* ------------------------------------------------------------------ claims
\* the last constructor call raised / returned an engine
CtorFailed == engine = "none" /\ error = "ValueError"
CtorSucceeded == engine # "none"

\* the first fit call on a freshly constructed engine has left its loop
FirstFitDone == mode = "fit" /\ n_calls = 1 /\ pc = "return"

\* the last value of a convergence history (0 for an empty one)
FinalDivergence(h) == IF h = << >> THEN 0 ELSE h[Len(h)]

C2_Construction ==
    /\ (CtorFailed \/ CtorSucceeded) =>
           ((n_docs <= arg_n_topics \/ n_words <= arg_n_topics) => CtorFailed)
    /\ CtorSucceeded =>
           /\ n_docs > arg_n_topics
           /\ n_words > arg_n_topics
           /\ 2 <= n_topics
           /\ n_topics < n_docs
           /\ n_topics < n_words

C2_Witness ==
    /\ CtorFailed
    /\ arg_n_topics = 2
    /\ n_docs = 2
    /\ n_words = 3

\* C3, as stated: a fit call runs at most max_iter + warmup EM iterations and
\* leaves its loop to return a Result, never by an exception.
C3_Claim == n_em <= max_iter + warmup /\ pc # "raise"

\* C4, as stated: after a fit on a fresh engine the history is no longer
\* than max_iter.
C4_Original == FirstFitDone => Len(History) <= max_iter

\* C4, amended: after a fit on a fresh engine the history is no longer than
\* max_iter + warmup (each as fit normalises it).
C4_Amended ==
    (mode = "fit" /\ n_calls = 1 /\ pc \in {"return", "raise"}) =>
        Len(History) <= max_iter + warmup

C4_Witness ==
    /\ FirstFitDone
    /\ max_iter >= 1
    /\ warmup >= 1
    /\ Len(History) = max_iter + warmup

\* C5, as stated: after a fit on a fresh engine with warmup >= max_iter the
\* history is empty.
C5_Original == (FirstFitDone /\ warmup >= max_iter) => History = << >>

\* C5, amended: after a fit on a fresh engine with warmup >= max_iter the
\* history holds at least warmup values, so it is empty only if warmup = 0.
C5_Amended ==
    (FirstFitDone /\ warmup >= max_iter) =>
        /\ Len(History) >= warmup
        /\ (History = << >>) <=> (warmup = 0)

C5_Witness ==
    /\ FirstFitDone
    /\ warmup = 1
    /\ max_iter = 1
    /\ Len(History) >= 1

\* C6: the loop of fit is left by break or by the exception of the stop
\* check only in an iteration after the warm-up, and a fit call with
\* max_iter >= 1 that has left its loop has run at least warmup + 1
\* iterations, whatever the tolerance and the history it started with.
C6_Warmup ==
    /\ exit \in {"break", "raise"} => n_iter > warmup
    /\ (pc \in {"return", "raise"} /\ max_iter >= 1) => n_em >= warmup + 1

C6_Witness ==
    /\ n_calls = 2
    /\ exit = "break"
    /\ warmup = 1
    /\ n_iter = 2
    /\ Len(History) >= 2

\* C7: no step removes or rewrites a value of the convergence history, and
\* a call of fit starts from the tensors and the history the engine has.
C7_Continues ==
    [][/\ IsPrefix(History, History')
       /\ (pc = "idle" /\ pc' # "idle") =>
              /\ conditional' = conditional
              /\ joint' = joint
              /\ History' = History]_vars

C7_Witness ==
    /\ n_calls = 2
    /\ mode = "fit"
    /\ pc = "return"
    /\ Len(results) = 1
    /\ n_em \in {1, 2}
    /\ Len(History) >= 3
    /\ conditional.gen = Len(History)

\* C8, as stated: a best_of call ends having made n_runs + 1 fit calls and
\* returning a Result.
C8_Claim ==
    [][(mode = "best_of" /\ pc # "idle" /\ pc' = "idle") =>
           /\ n_fit_calls' = n_runs + 1
           /\ error' = "none"
           /\ returned' # 0]_vars

\* C9, as stated: a best_of call returns a Result, and its final divergence
\* is not above the final divergence of the baseline fit.
C9_Claim ==
    [][(mode = "best_of" /\ pc = "return" /\ pc' = "idle") =>
           /\ returned' # 0
           /\ FinalDivergence(kl_lists'[results'[returned'].kl_divergences])
                  <= FinalDivergence(History)]_vars

\* C10, as stated: what a Result handed to the caller shows, its
\* convergence history included, never changes.
C10_Claim ==
    [][\A i \in 1..Len(results) :
           /\ results'[i] = results[i]
           /\ kl_lists'[results'[i].kl_divergences] = Convergence(results[i])
      ]_vars

\* ------------------------------------------------------------ prediction
\* Corpus.index: the position of a word in the vocabulary
IndexOf(voc, word) == CHOOSE i \in 1..Len(voc) : voc[i] = word

Range(f) == {f[x] : x \in DOMAIN f}

\* the distributions over 1..n whose entries are multiples of 1 / den and
\* at least low / den
Distributions(n, den, low) ==
    {[i \in 1..n |-> Rat(v[i], den)] :
        v \in {u \in [1..n -> low..den] :
                  RSum([i \in 1..n |-> Rat(u[i], den)]) = One}}

\* The arrays of an engine of variant v after a fit, for topic weights tp
\* and word distributions m (one column per topic): PLSA holds m itself,
\* ConditionalPLSA its inversion and the word marginal.  Document d has
\* half of the weight of topics d - 1 and d.
Factors(v, nt, tp, m) ==
    [variant |-> v,
     topic |-> tp,
     doc_given_topic |->
         [d \in 1..(nt + 1) |-> [t \in 1..nt |->
             IF d \in {t, t + 1} THEN Rat(1, 2) ELSE Zero]],
     word_given_topic |-> IF v = "PLSA" THEN m ELSE << >>,
     topic_given_word |-> IF v = "PLSA" THEN << >> ELSE Invert(m, tp),
     word |-> IF v = "PLSA" THEN << >>
              ELSE [w \in 1..Len(m) |->
                       RSum([t \in 1..nt |-> RMul(m[w][t], tp[t])])],
     kl_divergences |-> <<2, 1>>]

\* the token tuples Pipeline.process returns
Documents(voc) ==
    UNION {[1..n -> Range(voc) \cup UnknownWords] : n \in 0..MaxTokens}

InitPredict ==
    /\ NoEngine
    /\ n_docs = PredictTopics + 1
    /\ n_words = PredictTopics + 1
    /\ vocabulary = [i \in 1..(PredictTopics + 1) |-> WordNames[i]]
    /\ index = [word \in Range(vocabulary) |-> IndexOf(vocabulary, word)]
    /\ tf_idf \in BOOLEAN
    /\ \E k \in 0..MaxCommonWords :
           /\ ~tf_idf => k = 0
           /\ doc_freq = [w \in 1..n_words |-> IF w <= k THEN n_docs ELSE 1]
    /\ \E v \in Variants,
          tp \in Distributions(PredictTopics, TopicDen, 1),
          cols \in [1..PredictTopics ->
                       Distributions(PredictTopics + 1, WordDen, 0)] :
           factors = Factors(v, PredictTopics, tp, Transposed(cols))
    /\ raw = NoArrays
    /\ res = NoArrays
    /\ phase = "fitted"
    /\ pred = NoPrediction
    /\ NoNumbers
    /\ NoNormalize

\* PLSA._result / ConditionalPLSA._result, as fit calls it at line 109
ResultOf ==
    /\ phase = "fitted"
    /\ raw' = ResultArguments(factors)
    /\ \E topic_order \in SortingIndices(raw'.topic) :
       \E word_order \in
              ColumnOrders(OrderedColumns(raw'.word_given_topic,
                                          topic_order)) :
           res' = PlsaResult(raw', vocabulary, topic_order, word_order)
    /\ phase' = "result"
    /\ UNCHANGED <<corpusVars, engineVars, predictVars, vocabulary, em,
                   normalizeVars>>

\* result.predict(doc) for the tuple doc of processed tokens
Predict(doc) ==
    /\ phase = "result"
    /\ pred' = Predicted(res, index, n_words, tf_idf,
                         Idf(n_docs, doc_freq), doc)
    /\ index' = Counted(index, n_words, doc).index
    /\ phase' = "predicted"
    /\ UNCHANGED <<corpusVars, engineVars, vocabulary, raw, res, factors,
                   tf_idf, doc_freq, em, normalizeVars>>

NextPredict ==
    \/ ResultOf
    \/ \E doc \in Documents(vocabulary) : Predict(doc)

SpecPredict == InitPredict /\ [][NextPredict]_vars

\* ------------------------------------------- the EM iteration on numbers
\* values numpy.random.rand returns: below MACHINE_PRECISION, or not
RandValues == {Rat(1, 2 * PrecisionDen), Rat(1, 2)}

\* The engine after construction.  The value rand returned for topic t and
\* document d is the same for every word.
InitEM ==
    /\ NoEngine
    /\ NoResult
    /\ NoPredict
    /\ NoNormalize
    /\ n_docs = EMTopics + 1
    /\ n_words = EMTopics + 1
    /\ \E v \in Variants, counts \in Corpora, tf \in BOOLEAN,
          r \in [1..EMTopics -> [1..(EMTopics + 1) -> RandValues]] :
           em = Engine(v, counts, tf,
                       [t \in 1..EMTopics |->
                           [c \in 1..((EMTopics + 1) * (EMTopics + 1)) |->
                               r[t][DocOf(c, EMTopics + 1)]]])

\* self._m_step() at line 101 of fit
NumMStep ==
    /\ phase \in {"none", "iterated"}
    /\ em.n_iter < MaxEMIter
    /\ em' = IF em.variant = "PLSA" THEN MStepPLSA(em)
             ELSE MStepConditional(em)
    /\ phase' = "m_step"
    /\ UNCHANGED <<corpusVars, engineVars, vocabulary, raw, res, predictVars,
                   normalizeVars>>

\* self.__e_step() at line 102 of fit
NumEStep ==
    /\ phase = "m_step"
    /\ em' = EStepOf(em)
    /\ phase' = "iterated"
    /\ UNCHANGED <<corpusVars, engineVars, vocabulary, raw, res, predictVars,
                   normalizeVars>>

NextEM == NumMStep \/ NumEStep

SpecEM == InitEM /\ [][NextEM]_vars

\* ------------------------------------------------ normalization on its own
\* entries of the arrays __normalize is called with: zero, below
\* MACHINE_PRECISION, MACHINE_PRECISION itself, a probability, and a sum
\* of weighted counts above 1
NormValues ==
    {Zero, Rat(1, 2 * PrecisionDen), MachinePrecision, Rat(1, 3), Rat(3, 1)}

InitNormalize ==
    /\ NoEngine
    /\ n_docs = 0
    /\ n_words = 0
    /\ NoResult
    /\ NoPredict
    /\ NoNumbers
    /\ argument \in [1..NormRows -> [1..NormCols -> NormValues]]
    /\ normalized = NoReturn

\* self.__normalize(array): the array is clamped in place, the quotient
\* and the divisor are returned
NormalizeCall ==
    /\ normalized = NoReturn
    /\ argument # << >>
    /\ normalized' = Normalize(argument)
    /\ argument' = [i \in 1..Len(argument) |->
                       [j \in 1..Len(argument[1]) |->
                           Clamped(argument[i][j])]]
    /\ UNCHANGED <<corpusVars, engineVars, resultVars, predictVars, em>>

NextNormalize == NormalizeCall

SpecNormalize == InitNormalize /\ [][NextNormalize]_vars

\* ------------------------------------------------ claims on the container
\* the probabilities of a list of (word, probability) pairs
Probabilities(list) == [i \in 1..Len(list) |-> list[i][2]]

\* C11: in every Result the topic weights are in non-increasing order, and
\* one permutation of the original topics gives position k of the weights,
\* of topic_given_doc, of the stored topic-given-word matrix and of the
\* per-topic word lists.
C11_Sorted ==
    phase = "result" =>
        /\ NonIncreasing(res.topic)
        /\ \E p \in Perms(Len(raw.topic)) : \A k \in 1..Len(raw.topic) :
               /\ res.topic[k] = raw.topic[p[k]]
               /\ res.topic_given_doc[k] = raw.topic_given_doc[p[k]]
               /\ res.topic_given_word[k] = raw.topic_given_word[p[k]]
               /\ \A i \in 1..Len(vocabulary) :
                      LET pair == res.word_given_topic[k][i]
                      IN  pair[2] = raw.word_given_topic
                                        [IndexOf(vocabulary, pair[1])][p[k]]

\* raw weights 0.1, 0.5, 0.4 of three topics with different arrays have become
\* 0.5, 0.4, 0.1, and the first row of topic_given_doc is the second topic's
C11_Witness ==
    /\ phase = "result"
    /\ raw.topic = <<Rat(1, 10), Rat(5, 10), Rat(4, 10)>>
    /\ res.topic = <<Rat(5, 10), Rat(4, 10), Rat(1, 10)>>
    /\ raw.topic_given_doc[1] # raw.topic_given_doc[2]
    /\ raw.topic_given_doc[2] # raw.topic_given_doc[3]
    /\ raw.topic_given_doc[1] # raw.topic_given_doc[3]
    /\ res.topic_given_doc[1] = raw.topic_given_doc[2]
    /\ res.topic_given_word[3] = raw.topic_given_word[1]

\* C12: for every topic of a Result, word_given_topic is a list of
\* (word, probability) pairs in non-increasing probability order, every
\* vocabulary word appears in it exactly once, and every probability is
\* the one its word had in that topic's column before sorting.
C12_WordLists ==
    phase = "result" =>
        \A k \in 1..Len(res.topic) :
            LET list == res.word_given_topic[k]
            IN  /\ Len(list) = Len(vocabulary)
                /\ NonIncreasing(Probabilities(list))
                /\ \A w \in 1..Len(vocabulary) :
                       Cardinality({i \in 1..Len(list) :
                                       list[i][1] = vocabulary[w]}) = 1
                /\ \E t \in 1..Len(raw.topic) : \A i \in 1..Len(list) :
                       list[i][2] = raw.word_given_topic
                                        [IndexOf(vocabulary, list[i][1])][t]

\* a word list that is not in vocabulary order and holds equal probabilities
C12_Witness ==
    /\ phase = "result"
    /\ Len(vocabulary) = 4
    /\ res.word_given_topic[1][1][1] = vocabulary[3]
    /\ res.word_given_topic[1][3][2] = res.word_given_topic[1][4][2]
    /\ RLess(res.word_given_topic[1][2][2], res.word_given_topic[1][1][2])
    /\ res.word_given_topic[1][4][1] = vocabulary[1]

\* ------------------------------------------------------- claims on predict
\* the token is a word of the vocabulary
Known(word) == \E w \in 1..Len(vocabulary) : vocabulary[w] = word

\* occurrences of a word in a tuple of tokens
Occurrences(doc, word) == Cardinality({i \in 1..Len(doc) : doc[i] = word})

\* occurrences of tokens that are in no vocabulary
UnknownOccurrences(doc) == Cardinality({i \in 1..Len(doc) : ~Known(doc[i])})

\* the unknown tokens of a document, one entry for each occurrence, in the
\* order of the document
UnknownTokens(doc) == SelectSeq(doc, LAMBDA word : ~Known(word))

\* the token is a known word whose weighted count is not zero: with
\* tf_idf, a word that occurs in every document has inverse document
\* frequency log(1) = 0
HasWeight(word) ==
    /\ Known(word)
    /\ tf_idf => doc_freq[IndexOf(vocabulary, word)] < n_docs

\* C13 as stated: predict on a Result produced by PLSA yields no
\* topic-affinity vector; numbers are returned only for Results of
\* ConditionalPLSA.
C13_Original ==
    (phase = "predicted" /\ pred.affinity # << >>)
        => factors.variant = "ConditionalPLSA"

\* C13 amended: predict on a Result of either variant returns one affinity
\* per topic exactly when some token of the document is a known word of
\* non-zero weight, and raises FloatingPointError otherwise; the matrix a
\* PLSA Result predicts with is the inversion of word_given_topic with the
\* topic weights, p(t|w) proportional to p(w|t) p(t).
C13_Amended ==
    phase = "predicted" =>
        /\ pred.error = IF \E i \in 1..Len(pred.doc) : HasWeight(pred.doc[i])
                        THEN "none" ELSE "FloatingPointError"
        /\ pred.error = "none" => Len(pred.affinity) = Len(res.topic)
        /\ factors.variant = "PLSA" =>
               \A t \in 1..Len(factors.topic), w \in 1..n_words :
                   RMul(raw.topic_given_word[t][w],
                        RSum([u \in 1..Len(factors.topic) |->
                                 RMul(factors.word_given_topic[w][u],
                                      factors.topic[u])]))
                   = RMul(factors.word_given_topic[w][t], factors.topic[t])

\* predict has returned numbers for a PLSA Result with unequal topic
\* weights, for a word both topics emit
C13_Witness ==
    /\ phase = "predicted"
    /\ factors.variant = "PLSA"
    /\ factors.topic = <<Rat(1, 4), Rat(3, 4)>>
    /\ factors.word_given_topic[1] = <<One, One>>
    /\ pred.doc = <<"a">>
    /\ pred.affinity = <<Rat(3, 4), Rat(1, 4)>>

\* C14: predict on a document all of whose tokens are absent from the
\* vocabulary returns an all-zero topic-affinity vector, n_unknown_words
\* equal to the number of tokens and unknown_words holding those tokens.
C14_AllUnknown ==
    (/\ phase = "predicted"
     /\ pred.doc # << >>
     /\ \A i \in 1..Len(pred.doc) : ~Known(pred.doc[i]))
        => /\ pred.error = "none"
           /\ Len(pred.affinity) = Len(res.topic)
           /\ \A k \in 1..Len(pred.affinity) : pred.affinity[k] = Zero
           /\ pred.n_new_words = Len(pred.doc)
           /\ Range(pred.new_words) = Range(pred.doc)

\* C15: after the loop of predict, every occurrence of a token absent from
\* the vocabulary is counted in n_unknown_words and in no entry of the
\* word-count vector, every occurrence of a known token adds one to the
\* entry of its own word, and n_unknown_words plus the sum of the
\* word-count vector is the number of tokens.
C15_Counts ==
    phase = "predicted" =>
        /\ pred.n_new_words = UnknownOccurrences(pred.doc)
        /\ \A w \in 1..n_words :
               pred.encoded[w] = Rat(Occurrences(pred.doc, vocabulary[w]), 1)
        /\ RAdd(Rat(pred.n_new_words, 1),
                RSum(SubSeq(pred.encoded, 1, n_words)))
               = Rat(Len(pred.doc), 1)

\* a document with a known word twice and an unknown token has been counted
C15_Witness ==
    /\ phase = "predicted"
    /\ pred.doc = <<"b", "x", "b">>
    /\ pred.encoded = <<Zero, Rat(2, 1), Zero, One>>
    /\ pred.n_new_words = 1

\* C16 as stated: in the third value predict returns, every distinct
\* unknown token of the document appears exactly once.
C16_Original ==
    (phase = "predicted" /\ pred.error = "none") =>
        \A i \in 1..Len(pred.doc) :
            ~Known(pred.doc[i]) => Occurrences(pred.new_words, pred.doc[i]) = 1

\* C16 amended: the third value predict returns is the tuple of the unknown
\* tokens of the document in document order, one entry for each occurrence,
\* so its length is n_unknown_words.
C16_Amended ==
    (phase = "predicted" /\ pred.error = "none") =>
        /\ pred.new_words = UnknownTokens(pred.doc)
        /\ Len(pred.new_words) = pred.n_new_words

\* predict has returned for a document with the same unknown token twice
C16_Witness ==
    /\ phase = "predicted"
    /\ pred.error = "none"
    /\ pred.doc = <<"x", "b", "x">>
    /\ pred.new_words = <<"x", "x">>

\* C17: a predict call, whether it returns or raises, leaves the Result
\* (topic weights, topic_given_doc, word_given_topic, the matrix it
\* predicts with, the convergence history) and the corpus (sizes,
\* vocabulary, index, document frequencies, weighting) as they were; no
\* unknown token is inserted into the index.
C17_Frame ==
    [][phase' = "predicted" =>
          /\ res' = res
          /\ vocabulary' = vocabulary
          /\ index' = index
          /\ doc_freq' = doc_freq
          /\ tf_idf' = tf_idf
          /\ n_words' = n_words
          /\ n_docs' = n_docs]_vars

\* predict has raised on a document of unknown tokens, and the index holds
\* the vocabulary only
C17_Witness ==
    /\ phase = "predicted"
    /\ pred.error = "FloatingPointError"
    /\ pred.doc = <<"x", "y">>
    /\ DOMAIN index = Range(vocabulary)
    /\ Len(res.topic) = PredictTopics

\* ------------------------------------------------- claims on the iteration
\* the sum over topics of the conditional tensor at cell c
SliceSum(q, c) == RSum(Column(q, c))

\* the sum over documents of the document-given-topic factor of topic t
TopicColumnSum(e, t) == RSum(Column(e.doc_given_topic, t))

\* the conditional tensor has a non-zero slice wherever the document-word
\* matrix is not zero
Covered(e) ==
    \A d \in 1..Len(e.doc_word), w \in 1..Len(e.doc_word[1]) :
        e.doc_word[d][w] # Zero
            => SliceSum(e.conditional, Cell(d, w, Len(e.doc_word[1]))) # Zero

\* C18 as stated: after every completed EM iteration the conditional
\* tensor sums to 1 over the topics for every (d, w), the
\* document-given-topic factor sums to 1 over the documents for every
\* topic, and the topic weights sum to 1.
C18_Original ==
    phase = "iterated" =>
        /\ \A c \in 1..Len(em.conditional[1]) :
               SliceSum(em.conditional, c) = One
        /\ \A t \in 1..Len(em.topic) : TopicColumnSum(em, t) = One
        /\ RSum(em.topic) = One

\* C18 amended: after every completed EM iteration the conditional tensor
\* sums over the topics to 1 at every (d, w) where the joint tensor is not
\* zero for every topic and is all zero there otherwise; the
\* document-given-topic factor of a topic sums over the documents to 1 or
\* is all zero; the topic weights sum to at most 1, and to 1 when the
\* conditional tensor the M-step read had a non-zero slice wherever the
\* document-word matrix is not zero.
C18_Amended ==
    /\ phase = "iterated" =>
           /\ \A c \in 1..Len(em.conditional[1]) :
                  IF \A t \in 1..Len(em.joint) : em.joint[t][c] = Zero
                  THEN \A t \in 1..Len(em.joint) : em.conditional[t][c] = Zero
                  ELSE SliceSum(em.conditional, c) = One
           /\ \A t \in 1..Len(em.topic) :
                  \/ TopicColumnSum(em, t) = One
                  \/ \A d \in 1..Len(em.doc_given_topic) :
                         em.doc_given_topic[d][t] = Zero
           /\ RLeq(RSum(em.topic), One)
    /\ phase = "m_step" =>
           /\ RLeq(RSum(em.topic), One)
           /\ Covered(em) => RSum(em.topic) = One

\* after the second iteration one slice of the conditional tensor is all
\* zero and another one holds two non-zero probabilities
C18_Witness ==
    /\ phase = "iterated"
    /\ em.n_iter = 2
    /\ \E c \in 1..Len(em.conditional[1]) :
           \A t \in 1..Len(em.conditional) : em.conditional[t][c] = Zero
    /\ \E c \in 1..Len(em.conditional[1]) :
           \A t \in 1..Len(em.conditional) :
               em.conditional[t][c] # Zero /\ em.conditional[t][c] # One
    /\ RSum(em.topic) = One

\* ------------------------------------------------------- claims on errors
\* C19: on a successfully constructed engine, fit never raises: for every
\* tolerance, max_iter and warmup and every divergence (zero included) the
\* loop of a fit call is left by its condition or by break, never by an
\* exception.
C19_NeverRaises == mode = "fit" => exit # "raise"

\* ------------------------------------------------------ claims on the loop
\* C21: in fit, once the warm-up is over, an iteration whose relative
\* change of the divergence against the last value of the history is below
\* the tolerance leaves the loop and appends nothing; every iteration that
\* does not leave the loop (by break or by an exception) appends exactly
\* its own divergence to the history.
C21_StopOrAppend ==
    [][pc = "check" =>
          /\ (/\ n_iter' > warmup
              /\ History # << >>
              /\ kl_divergence' # 0
              /\ Abs(kl_divergence' - History[Len(History)]) * EpsDen
                     < eps * Abs(kl_divergence'))
                 => /\ exit' = "break"
                    /\ pc' = "return"
                    /\ kl_lists' = kl_lists
                    /\ kl_divergences' = kl_divergences
          /\ exit' \notin {"break", "raise"}
                 => /\ kl_divergences' = kl_divergences
                    /\ kl_lists'[kl_divergences]
                           = Append(History, kl_divergence')
                    /\ \A i \in 1..Len(kl_lists) :
                           i # kl_divergences => kl_lists'[i] = kl_lists[i]
      ]_vars

\* a fit with one warm-up iteration has stopped early in its third
\* iteration: two divergences were appended, the third was not
C21_Witness ==
    /\ mode = "fit"
    /\ n_calls = 1
    /\ pc = "return"
    /\ exit = "break"
    /\ warmup = 1
    /\ n_iter = 3
    /\ Len(History) = 2

\* C22 as stated: the first iteration after the warm-up of a fit call
\* never leaves the loop by break, whatever the tolerance and the warm-up.
C22_Original ==
    [][(pc = "check" /\ n_iter' = warmup + 1) => exit' # "break"]_vars

\* C22 amended: an iteration whose divergence is checked against an empty
\* history never leaves the loop by break (nor by an exception): the
\* relative change is infinite exactly when the history is empty.  That is
\* the first iteration of the first fit of an engine when warmup = 0; after
\* warm-up iterations, or in a later fit call, the history holds their
\* divergences and the first iteration after the warm-up can stop.
C22_Amended ==
    [][(pc = "check" /\ History = << >>) =>
           /\ exit' \notin {"break", "raise"}
           /\ kl_lists'[kl_divergences] = <<kl_divergence'>>]_vars

\* the first iteration of a first fit without warm-up and with a positive
\* tolerance has been checked against the empty history and has appended
\* its divergence
C22_Witness ==
    /\ mode = "fit"
    /\ n_calls = 1
    /\ warmup = 0
    /\ eps > 0
    /\ n_iter = 1
    /\ pc = "m_step"
    /\ Len(History) = 1

\* C23 as stated: in best_of, after the baseline fit and after each
\* additional fit but the last, a further fit starts from a freshly
\* randomized conditional tensor and an empty history, on the same corpus,
\* with the same number of topics and the same fit arguments.
C23_Claim ==
    [][(/\ mode = "best_of"
        /\ pc = "return"
        /\ topic # Empty
        /\ n_runs >= 1
        /\ n_fit_calls <= n_runs)
           => /\ n_fit_calls' = n_fit_calls + 1
              /\ conditional'.gen = 0
              /\ kl_divergences' # 0
              /\ kl_lists'[kl_divergences'] = << >>
              /\ n_topics' = n_topics
              /\ <<n_docs', n_words'>> = <<n_docs, n_words>>
              /\ <<eps', max_iter', warmup'>> = <<eps, max_iter, warmup>>
      ]_vars

\* C24: every EM iteration runs the maximization step, then the
\* expectation step, then the computation of the divergence and the stop
\* check; the maximization step makes the joint tensor from the current
\* conditional tensor, and the expectation step makes the conditional
\* tensor and the marginal from the joint tensor the maximization step of
\* the same iteration has made.
C24_Order ==
    [][/\ pc = "m_step" =>
              /\ pc' = "e_step"
              /\ joint'.seed = conditional.seed
              /\ joint'.gen = conditional.gen + 1
              /\ conditional' = conditional
       /\ pc = "e_step" =>
              /\ pc' = "check"
              /\ joint.seed = conditional.seed
              /\ joint.gen = conditional.gen + 1
              /\ conditional' = joint
              /\ norm' = joint
              /\ joint' = joint
       /\ pc = "check" =>
              /\ pc' \in {"m_step", "return", "raise"}
              /\ n_iter' = n_iter + 1
              /\ norm = joint
              /\ conditional = joint
              /\ UNCHANGED tensorVars
      ]_vars

\* the second iteration of a fit has made its conditional tensor from the
\* joint tensor of its own maximization step and is at the stop check
C24_Witness ==
    /\ mode = "fit"
    /\ n_calls = 1
    /\ pc = "check"
    /\ n_iter = 1
    /\ joint.gen = 2
    /\ conditional = joint

\* every call made on the engine so far is a fit, and every one before the
\* last has returned its Result
FitsOnly == mode = "fit" /\ Len(results) >= n_calls - 1

\* C26 as stated: across any sequence of fit calls on one engine, between
\* iterations and between calls the length of the convergence history is
\* the number of EM iterations executed so far minus the number of fit
\* calls left by early stop; a fit left by early stop returns the tensors
\* of the stopping iteration, which has no entry in the history.
C26_Claim ==
    [][(/\ engine' # "none"
        /\ FitsOnly'
        /\ pc' \in {"m_step", "return", "idle"})
           => /\ Len(History') = joint'.gen - n_early_stops'
              /\ (pc = "return" /\ exit = "break" /\ returned' # 0)
                     => /\ results'[returned'].topic = joint
                        /\ results'[returned'].topic_given_doc = joint
                        /\ Len(History') < joint.gen
      ]_vars

\* ----------------------------------------------- claims on normalization
\* the positions of slice j whose entry is not below MACHINE_PRECISION
KeptEntries(m, j) ==
    {i \in 1..Len(m) : ~RLess(m[i][j], MachinePrecision)}

\* C25: for every non-negative array, __normalize sets the entries below
\* MACHINE_PRECISION to zero; a slice that is then all zero comes back all
\* zero with divisor 1, every other slice comes back as its entries divided
\* by their sum, summing to 1, with that sum (never zero) as divisor.
C25_Normalize ==
    [][(normalized = NoReturn /\ normalized' # NoReturn) =>
           \A j \in 1..Len(argument[1]) :
               /\ \A i \in 1..Len(argument) :
                      argument'[i][j] = IF i \in KeptEntries(argument, j)
                                        THEN argument[i][j] ELSE Zero
               /\ IF KeptEntries(argument, j) = {}
                  THEN /\ normalized'.norm[j] = One
                       /\ \A i \in 1..Len(argument) :
                              normalized'.array[i][j] = Zero
                  ELSE /\ normalized'.norm[j] = RSum(Column(argument', j))
                       /\ normalized'.norm[j] # Zero
                       /\ RSum(Column(normalized'.array, j)) = One
                       /\ \A i \in 1..Len(argument) :
                              RMul(normalized'.array[i][j],
                                   normalized'.norm[j]) = argument'[i][j]
      ]_vars

\* __normalize has returned for an array whose first slice is all zero
\* after the clamping and whose second slice has the sum 3 + 1/3 + 0
C25_Witness ==
    /\ normalized # NoReturn
    /\ argument = <<<<Zero, Rat(3, 1)>>, <<Zero, Rat(1, 3)>>,
                    <<Zero, Zero>>>>
    /\ normalized.norm = <<One, Rat(10, 3)>>
    /\ normalized.array = <<<<Zero, Rat(9, 10)>>, <<Zero, Rat(1, 10)>>,
                            <<Zero, Zero>>>>

\* --------------------------------------------- claims on the topic order
\* the weighted and normalized word counts of a document: what predict
\* multiplies topic_given_word with
Encoding(doc) ==
    LET weighted == [w \in 1..n_words |->
                        RMul(Rat(Occurrences(doc, vocabulary[w]), 1),
                             IF tf_idf THEN Idf(n_docs, doc_freq)[w]
                             ELSE One)]
    IN  [w \in 1..n_words |-> RDiv(weighted[w], RSum(weighted))]

\* C27: the affinities predict returns are in the topic order of the
\* Result: one assignment of positions to the topics of the engine gives,
\* for every position k, the entry k of Result.topic, the column k of
\* Result.topic_given_doc, the word list k of Result.word_given_topic and
\* the entry k of the affinity vector.
C27_TopicOrder ==
    (phase = "predicted" /\ pred.error = "none") =>
        \E p \in Perms(Len(raw.topic)) :
            \A k \in 1..Len(raw.topic) :
                /\ res.topic[k] = raw.topic[p[k]]
                /\ res.topic_given_doc[k] = raw.topic_given_doc[p[k]]
                /\ \A w \in 1..n_words :
                       \E i \in 1..n_words :
                           res.word_given_topic[k][i]
                               = <<vocabulary[w],
                                   raw.word_given_topic[w][p[k]]>>
                /\ pred.affinity[k]
                       = RSum([w \in 1..n_words |->
                                  RMul(raw.topic_given_word[p[k]][w],
                                       Encoding(pred.doc)[w])])

\* predict has returned different affinities for the two topics of a
\* ConditionalPLSA Result whose topics were swapped by the sort
C27_Witness ==
    /\ phase = "predicted"
    /\ pred.error = "none"
    /\ factors.variant = "ConditionalPLSA"
    /\ RLess(raw.topic[1], raw.topic[2])
    /\ res.topic[1] = raw.topic[2]
    /\ Len(pred.doc) = 2
    /\ RLess(pred.affinity[2], pred.affinity[1])
    /\ pred.affinity[2] # Zero

====
